---- MODULE Spec2Model ----
(***************************************************************************)
(* The to-do application: the /todos routes of the API worker              *)
(* (src/worker/routes/todo-routes.ts) over the todos table, and the        *)
(* TodoList view-model of the client (src/src/components/todo-list.tsx).   *)
(*                                                                         *)
(* Every `await db...` of a handler is one atomic statement of the store;  *)
(* the statements of concurrent requests interleave freely.  The local     *)
(* computation that precedes a statement (reading the session, validating  *)
(* the body, crypto.randomUUID(), new Date()) is taken together with it.   *)
(***************************************************************************)
EXTENDS Integers, Sequences, FiniteSets, TLC

VARIABLES
    store,      \* the todos table: a set of rows
    clock,      \* the wall clock read by new Date(), in stored seconds
    issued,     \* how many ids crypto.randomUUID() has handed out
    reqs,       \* the requests being served: slot -> handler position
    arrived,    \* how many requests have arrived so far
    cache,      \* the client's query cache entry ["todos"]
    inflight,   \* slot -> the client query or mutation waiting on it
    filter      \* the client's selected filter tab

serverVars == <<store, clock, issued, reqs, arrived>>
clientVars == <<cache, inflight, filter>>
vars == <<store, clock, issued, reqs, arrived, cache, inflight, filter>>

-----------------------------------------------------------------------------
(* Bounds of the model *)

MaxTodos == 2       \* ids that crypto.randomUUID() hands out in one run
MaxTime == 1        \* the clock runs 0..MaxTime
MaxReqs == 2        \* requests served at the same time
MaxArrivals == 3    \* requests that arrive in one run

Slots == 1..MaxReqs

-----------------------------------------------------------------------------
(* Values *)

Users == {"A", "B"}
NoUser == "none"

\* a title is a string: a sequence of characters
Rep(n) == [i \in 1..n |-> "a"]

CreateTitleMax == 500
UpdateTitleMax == 500

\* the titles requests carry: empty, shortest, longest, one too long
TitleInputs == {Rep(0), Rep(1), Rep(CreateTitleMax), Rep(CreateTitleMax + 1)}

\* crypto.randomUUID(): the n-th id handed out; ids never repeat
UuidPool == <<"id-1", "id-2", "id-3", "id-4">>
Uuid(n) == UuidPool[n]
TodoIds == {Uuid(n) : n \in 1..MaxTodos}

\* a JSON request body: the keys it carries and their values
MkBody(keys, title, completed) ==
    [keys |-> keys,
     title |-> IF "title" \in keys THEN title ELSE <<>>,
     completed |-> IF "completed" \in keys THEN completed ELSE FALSE]

NoBody == MkBody({}, <<>>, FALSE)

Bodies ==
    {MkBody(k, t, c) : k \in SUBSET {"title", "completed"},
                       t \in TitleInputs, c \in BOOLEAN}

\* a row of the todos table
MkTodo(id, userId, title, completed, createdAt, updatedAt) ==
    [id |-> id, userId |-> userId, title |-> title, completed |-> completed,
     createdAt |-> createdAt, updatedAt |-> updatedAt]

\* c.json(value, status)
Json(status, kind, rows) == [status |-> status, kind |-> kind, rows |-> rows]

IdleReq ==
    [pc |-> "idle", handler |-> "none", user |-> NoUser, id |-> "",
     body |-> NoBody, now |-> 0, resp |-> Json(0, "none", <<>>)]

-----------------------------------------------------------------------------
(* Routing: Hono runs the handlers whose pattern matches the request, in   *)
(* the order they were registered; the first one that returns a response   *)
(* ends the request.                                                       *)

\* the routes of todoRoutes, in registration order
Routes ==
    << [method |-> "GET",    pattern |-> "/",          handler |-> "list"],
       [method |-> "POST",   pattern |-> "/",          handler |-> "create"],
       [method |-> "PATCH",  pattern |-> "/:id",       handler |-> "update"],
       [method |-> "DELETE", pattern |-> "/:id",       handler |-> "deleteOne"],
       [method |-> "DELETE", pattern |-> "/completed", handler |-> "deleteCompleted"] >>

\* a path below /todos is "/" (seg = "") or "/" followed by one segment
PatternMatches(pattern, seg) ==
    CASE pattern = "/"          -> seg = ""
      [] pattern = "/:id"       -> seg # ""
      [] pattern = "/completed" -> seg = "completed"

Matching(method, seg) ==
    {i \in 1..Len(Routes) :
        Routes[i].method = method /\ PatternMatches(Routes[i].pattern, seg)}

\* the handler that answers: the first registered one that matches
RouteHandler(method, seg) ==
    LET m == Matching(method, seg)
    IN  Routes[CHOOSE i \in m : \A j \in m : i <= j].handler

-----------------------------------------------------------------------------
(* Middleware *)

\* authenticatedOnly: lets the request through when a session user is set
Authenticated(user) == user # NoUser

\* createTodoSchema without its .max(500)
CreateSchemaNoMax(body) ==
    /\ "title" \in body.keys
    /\ Len(body.title) >= 1

\* createTodoSchema
CreateSchemaOk(body) ==
    /\ "title" \in body.keys
    /\ Len(body.title) >= 1
    /\ Len(body.title) <= CreateTitleMax

\* updateTodoSchema
UpdateSchemaOk(body) ==
    "title" \in body.keys =>
        /\ Len(body.title) >= 1
        /\ Len(body.title) <= UpdateTitleMax

\* zValidator("json", schema) of the route, if it has one
SchemaOk(handler, body) ==
    CASE handler = "create" -> CreateSchemaOk(body)
      [] handler = "update" -> UpdateSchemaOk(body)
      [] OTHER -> TRUE

\* c.req.valid("json"): zod keeps the keys of the schema and strips the rest
ValidBody(handler, body) ==
    CASE handler = "create" -> MkBody(body.keys \cap {"title"}, body.title, FALSE)
      [] OTHER -> body

\* the route's validator running in front of authenticatedOnly
RejectValidatorFirst(user, handler, body) ==
    IF ~SchemaOk(handler, body) THEN 400
    ELSE IF user = NoUser THEN 401
    ELSE 0

\* what is in front of a handler: .use("*", authenticatedOnly), then the
\* route's zValidator, then the handler's own check of the user.
\* The status that ends the request early, or 0 to go on.
Reject(user, handler, body) ==
    IF ~Authenticated(user) THEN 401
    ELSE IF ~SchemaOk(handler, body) THEN 400
    ELSE IF user = NoUser THEN 401
    ELSE 0

ErrorJson(status) == Json(status, "error", <<>>)

-----------------------------------------------------------------------------
(* Statements of the store *)

\* select().from(todos).where(eq(todos.userId, user.id))
SelectByUser(st, user) == {t \in st : t.userId = user}

\* .orderBy(desc(todos.createdAt)): the rows, latest first; rows created
\* in the same second come in an order the statement does not fix
Ordered(rows) ==
    {f \in [1..Cardinality(rows) -> rows] :
        /\ \A i, j \in DOMAIN f : i # j => f[i] # f[j]
        /\ \A i, j \in DOMAIN f : i < j => f[i].createdAt >= f[j].createdAt}

\* the ownership select without its eq(todos.userId, user.id)
SelectAnyOwner(st, id, user) == {t \in st : t.id = id}

\* select().from(todos).where(and(eq(todos.id, id), eq(todos.userId, user.id)))
SelectOwned(st, id, user) == {t \in st : t.id = id /\ t.userId = user}

\* select().from(todos).where(eq(todos.id, id)).limit(1)
SelectById(st, id) == {t \in st : t.id = id}

\* rows[0] of a select with limit(1), as c.json sends it: the row, or
\* nothing when the select matched no row (c.json(undefined))
FirstRow(status, rows) ==
    IF rows = {} THEN Json(status, "none", <<>>)
    ELSE Json(status, "task", << CHOOSE t \in rows : TRUE >>)

\* .set() writing the whole row: a key the patch lacks is written empty
ApplyWholeRow(t, updates, now) ==
    [t EXCEPT !.title = updates.title,
              !.completed = updates.completed,
              !.updatedAt = now]

\* .set({...updates, updatedAt: new Date()}) applied to one row
ApplySet(t, updates, now) ==
    [t EXCEPT !.title = IF "title" \in updates.keys THEN updates.title ELSE @,
              !.completed = IF "completed" \in updates.keys
                            THEN updates.completed ELSE @,
              !.updatedAt = now]

\* db.update(todos).set(...).where(eq(todos.id, id))
UpdateStmt(st, id, updates, now) ==
    {IF t.id = id THEN ApplySet(t, updates, now) ELSE t : t \in st}

\* db.delete(todos) without its where
DeleteNoWhere(st, id) == {}

\* db.delete(todos).where(eq(todos.id, id))
DeleteStmt(st, id) == {t \in st : t.id # id}

\* db.delete(todos).where(and(eq(todos.userId, user.id), eq(todos.completed, true)))
DeleteCompletedStmt(st, user) == {t \in st : ~(t.userId = user /\ t.completed)}

\* the row that POST / inserts
NewTodo(id, user, title, now) == MkTodo(id, user, title, FALSE, now, now)

\* db.insert(todos).values(row)
InsertStmt(st, row) == st \cup {row}

-----------------------------------------------------------------------------
(* The requests.  A request enters a free slot with its first statement    *)
(* and stays there, answered, until its response has been taken.  A        *)
(* handler evaluates the arguments of a statement, new Date() among them,  *)
(* when it issues the statement; the store executes it in a later step.    *)

\* a handler between two statements: its locals (user, id, updates)
Running(handler, user, id, body, pc) ==
    [pc |-> pc, handler |-> handler, user |-> user, id |-> id,
     body |-> body, now |-> 0, resp |-> Json(0, "none", <<>>)]

\* a handler awaiting a statement it has issued with the date now
Awaiting(handler, user, id, body, pc, now) ==
    [pc |-> pc, handler |-> handler, user |-> user, id |-> id,
     body |-> body, now |-> now, resp |-> Json(0, "none", <<>>)]

\* a handler that has returned its response
Answered(handler, user, id, body, resp) ==
    [pc |-> "done", handler |-> handler, user |-> user, id |-> id,
     body |-> body, now |-> 0, resp |-> resp]

\* a request reaches the worker, in slot s
Arrive(s) == reqs[s].pc = "idle"

\* GET /todos
Get(s, user) ==
    /\ Arrive(s)
    /\ LET h == RouteHandler("GET", "")
           rej == Reject(user, h, NoBody)
       IN  IF rej # 0
           THEN reqs' = [reqs EXCEPT ![s] =
                            Answered(h, user, "", NoBody, ErrorJson(rej))]
           ELSE \E userTodos \in Ordered(SelectByUser(store, user)) :
                    reqs' = [reqs EXCEPT ![s] =
                        Answered(h, user, "", NoBody,
                                 Json(200, "list", userTodos))]
    /\ UNCHANGED <<store, clock, issued>>

\* POST /todos, up to the await of the insert: the id and the date of the
\* new row are taken, the insert is issued
Post(s, user, body) ==
    /\ Arrive(s)
    /\ LET h == RouteHandler("POST", "")
           rej == Reject(user, h, body)
       IN  IF rej # 0
           THEN /\ reqs' = [reqs EXCEPT ![s] =
                             Answered(h, user, "", NoBody, ErrorJson(rej))]
                /\ UNCHANGED <<store, issued>>
           ELSE /\ issued < MaxTodos
                /\ LET id == Uuid(issued + 1)
                       valid == ValidBody(h, body)
                   IN  reqs' = [reqs EXCEPT ![s] =
                           Awaiting(h, user, id, valid, "insert", clock)]
                /\ issued' = issued + 1
    /\ UNCHANGED <<store, clock>>

\* POST /todos: the insert statement
CreateWrite(s) ==
    /\ reqs[s].pc = "insert"
    /\ reqs[s].handler = "create"
    /\ LET r == reqs[s]
       IN  /\ store' = InsertStmt(store,
                           NewTodo(r.id, r.user, r.body.title, r.now))
           /\ reqs' = [reqs EXCEPT ![s] =
                   Running(r.handler, r.user, r.id, NoBody, "reread")]
    /\ UNCHANGED <<clock, issued>>

\* POST /todos: the select of the new row, and the response
CreateReread(s) ==
    /\ reqs[s].pc = "reread"
    /\ reqs[s].handler = "create"
    /\ LET r == reqs[s]
       IN  reqs' = [reqs EXCEPT ![s] =
               Answered(r.handler, r.user, r.id, r.body,
                        FirstRow(201, SelectById(store, r.id)))]
    /\ UNCHANGED <<store, clock, issued>>

\* PATCH /todos/:id, up to and including the select of the owned row
Patch(s, user, seg, body) ==
    /\ Arrive(s)
    /\ LET h == RouteHandler("PATCH", seg)
           rej == Reject(user, h, body)
           updates == ValidBody(h, body)
       IN  IF rej # 0
           THEN reqs' = [reqs EXCEPT ![s] =
                            Answered(h, user, "", NoBody, ErrorJson(rej))]
           ELSE IF SelectOwned(store, seg, user) = {}
           THEN reqs' = [reqs EXCEPT ![s] =
                            Answered(h, user, seg, NoBody, ErrorJson(404))]
           ELSE reqs' = [reqs EXCEPT ![s] =
                            Running(h, user, seg, updates, "build")]
    /\ UNCHANGED <<store, clock, issued>>

\* PATCH /todos/:id: the handler goes on after the select and issues the
\* update with updatedAt: new Date()
UpdateBuild(s) ==
    /\ reqs[s].pc = "build"
    /\ reqs[s].handler = "update"
    /\ LET r == reqs[s]
       IN  reqs' = [reqs EXCEPT ![s] =
               Awaiting(r.handler, r.user, r.id, r.body, "write", clock)]
    /\ UNCHANGED <<store, clock, issued>>

\* PATCH /todos/:id: the update statement
UpdateWrite(s) ==
    /\ reqs[s].pc = "write"
    /\ reqs[s].handler = "update"
    /\ LET r == reqs[s]
       IN  /\ store' = UpdateStmt(store, r.id, r.body, r.now)
           /\ reqs' = [reqs EXCEPT ![s] =
                   Running(r.handler, r.user, r.id, r.body, "reread")]
    /\ UNCHANGED <<clock, issued>>

\* PATCH /todos/:id: the select of the updated row, and the response
UpdateReread(s) ==
    /\ reqs[s].pc = "reread"
    /\ reqs[s].handler = "update"
    /\ LET r == reqs[s]
       IN  reqs' = [reqs EXCEPT ![s] =
               Answered(r.handler, r.user, r.id, r.body,
                        FirstRow(200, SelectById(store, r.id)))]
    /\ UNCHANGED <<store, clock, issued>>

\* DELETE /todos/<seg>, up to and including the handler's first statement
Delete(s, user, seg) ==
    /\ Arrive(s)
    /\ LET h == RouteHandler("DELETE", seg)
           rej == Reject(user, h, NoBody)
       IN  IF rej # 0
           THEN /\ reqs' = [reqs EXCEPT ![s] =
                             Answered(h, user, "", NoBody, ErrorJson(rej))]
                /\ UNCHANGED store
           ELSE IF h = "deleteCompleted"
           THEN /\ store' = DeleteCompletedStmt(store, user)
                /\ reqs' = [reqs EXCEPT ![s] =
                             Answered(h, user, seg, NoBody,
                                      Json(200, "success", <<>>))]
           ELSE IF SelectOwned(store, seg, user) = {}
           THEN /\ reqs' = [reqs EXCEPT ![s] =
                             Answered(h, user, seg, NoBody, ErrorJson(404))]
                /\ UNCHANGED store
           ELSE /\ reqs' = [reqs EXCEPT ![s] =
                             Running(h, user, seg, NoBody, "write")]
                /\ UNCHANGED store
    /\ UNCHANGED <<clock, issued>>

\* DELETE /todos/:id: the delete statement, and the response
DeleteWrite(s) ==
    /\ reqs[s].pc = "write"
    /\ reqs[s].handler = "deleteOne"
    /\ LET r == reqs[s]
       IN  /\ store' = DeleteStmt(store, r.id)
           /\ reqs' = [reqs EXCEPT ![s] =
                   Answered(r.handler, r.user, r.id, r.body,
                            Json(200, "success", <<>>))]
    /\ UNCHANGED <<clock, issued>>

\* the response has been sent: the slot is free again
Retire(s) ==
    /\ reqs[s].pc = "done"
    /\ reqs' = [reqs EXCEPT ![s] = IdleReq]
    /\ UNCHANGED <<store, clock, issued>>

\* time passes
Tick ==
    /\ clock < MaxTime
    /\ clock' = clock + 1
    /\ UNCHANGED <<store, issued, reqs>>

-----------------------------------------------------------------------------
(* The API under any callers *)

Callers == Users \cup {NoUser}
Segs == TodoIds \cup {"completed"}

NoOp == [kind |-> "none", seg |-> "", body |-> NoBody]

InitServer ==
    /\ store = {}
    /\ clock = 0
    /\ issued = 0
    /\ reqs = [s \in Slots |-> IdleReq]
    /\ arrived = 0

InitClient ==
    /\ cache = [loaded |-> FALSE, rows |-> <<>>]
    /\ inflight = [s \in Slots |-> NoOp]
    /\ filter = "all"

Init == InitServer /\ InitClient

\* slots are interchangeable: a request takes the first free one
Free(s) ==
    /\ reqs[s].pc = "idle"
    /\ inflight[s].kind = "none"
    /\ \A r \in Slots :
          r < s => reqs[r].pc # "idle" \/ inflight[r].kind # "none"

\* A response is taken before the next handler returns: taking a response
\* changes nothing but the slot, so this orders steps that commute and
\* loses no store or response the API can produce.
OneAnswer == Cardinality({s \in Slots : reqs[s].pc = "done"}) <= 1

\* a step of the API alone: the client stands still
Api == OneAnswer' /\ UNCHANGED clientVars

\* one more request arrives
Counted == arrived < MaxArrivals /\ arrived' = arrived + 1

ApiGet ==
    \E s \in Slots, u \in Callers : Free(s) /\ Get(s, u) /\ Counted /\ Api

ApiPost ==
    \E s \in Slots, u \in Callers, b \in Bodies :
        Free(s) /\ Post(s, u, b) /\ Counted /\ Api

ApiCreateWrite ==
    \E s \in Slots : CreateWrite(s) /\ UNCHANGED arrived /\ Api

ApiCreateReread ==
    \E s \in Slots : CreateReread(s) /\ UNCHANGED arrived /\ Api

ApiPatch ==
    \E s \in Slots, u \in Callers, id \in Segs, b \in Bodies :
        Free(s) /\ Patch(s, u, id, b) /\ Counted /\ Api

ApiUpdateBuild ==
    \E s \in Slots : UpdateBuild(s) /\ UNCHANGED arrived /\ Api

ApiUpdateWrite ==
    \E s \in Slots : UpdateWrite(s) /\ UNCHANGED arrived /\ Api

ApiUpdateReread ==
    \E s \in Slots : UpdateReread(s) /\ UNCHANGED arrived /\ Api

ApiDelete ==
    \E s \in Slots, u \in Callers, id \in Segs :
        Free(s) /\ Delete(s, u, id) /\ Counted /\ Api

ApiDeleteWrite ==
    \E s \in Slots : DeleteWrite(s) /\ UNCHANGED arrived /\ Api

ApiRetire == \E s \in Slots : Retire(s) /\ UNCHANGED arrived /\ Api

ApiTick == Tick /\ UNCHANGED arrived /\ Api

Next ==
    \/ ApiGet
    \/ ApiPost
    \/ ApiCreateWrite
    \/ ApiCreateReread
    \/ ApiPatch
    \/ ApiUpdateBuild
    \/ ApiUpdateWrite
    \/ ApiUpdateReread
    \/ ApiDelete
    \/ ApiDeleteWrite
    \/ ApiRetire
    \/ ApiTick

Spec == Init /\ [][Next]_vars

-----------------------------------------------------------------------------
(* The client: the TodoList component of the signed-in user, its query    *)
(* ["todos"] and its four mutations.  A request the client has sent waits *)
(* in its slot until the worker takes it up; the response waits there     *)
(* until the client takes it.                                             *)

Me == "A"
Filters == {"all", "active", "completed"}
MutationKinds == {"create", "update", "delete", "clear"}

Op(kind, seg, body) == [kind |-> kind, seg |-> seg, body |-> body]
FetchOp == Op("fetch", "", NoBody)

\* const { data: todos = [] } = useQuery(...)
Todos == cache.rows

\* the active branch of the filter keeping the completed tasks
FilterActiveKeepsCompleted(todos, f) ==
    SelectSeq(todos, LAMBDA todo :
        IF f = "active" THEN todo.completed
        ELSE IF f = "completed" THEN todo.completed
        ELSE TRUE)

\* filteredTodos
FilteredTodos(todos, f) ==
    SelectSeq(todos, LAMBDA todo :
        IF f = "active" THEN ~todo.completed
        ELSE IF f = "completed" THEN todo.completed
        ELSE TRUE)

\* activeTodoCount
ActiveTodoCount(todos) == Len(SelectSeq(todos, LAMBDA t : ~t.completed))

\* completedTodoCount
CompletedTodoCount(todos) == Len(SelectSeq(todos, LAMBDA t : t.completed))

\* the titles the form submits: newTodo.trim(), when it is not empty
FormTitles == {Rep(1), Rep(CreateTitleMax + 1)}

\* query.state.fetchStatus = "fetching"
FetchSlots == {s \in Slots : inflight[s].kind = "fetch"}

\* mutation.isPending
IsPending(kind) == \E s \in Slots : inflight[s].kind = kind

\* mutation.mutate(...): the request goes out
Mutate(s, op) ==
    /\ Free(s)
    /\ inflight' = [inflight EXCEPT ![s] = op]
    /\ UNCHANGED <<store, clock, issued, reqs, cache, filter>>

\* the add form left enabled while its mutation is pending
HandleAddTodoWhilePending(s, title) ==
    Mutate(s, Op("create", "", MkBody({"title"}, title, FALSE)))

\* handleAddTodo; the form is disabled while createMutation.isPending
HandleAddTodo(s, title) ==
    /\ ~IsPending("create")
    /\ Mutate(s, Op("create", "", MkBody({"title"}, title, FALSE)))

\* handleToggle(todo), for a todo of the displayed list
HandleToggle(s, i) ==
    LET todo == FilteredTodos(Todos, filter)[i]
    IN  Mutate(s, Op("update", todo.id,
                     MkBody({"completed"}, <<>>, ~todo.completed)))

\* handleDelete(todo.id), for a todo of the displayed list
HandleDelete(s, i) ==
    LET todo == FilteredTodos(Todos, filter)[i]
    IN  Mutate(s, Op("delete", todo.id, NoBody))

\* the "Clear completed" button: shown when completedTodoCount > 0,
\* disabled while clearCompletedMutation.isPending
ClearCompleted(s) ==
    /\ CompletedTodoCount(Todos) > 0
    /\ ~IsPending("clear")
    /\ Mutate(s, Op("clear", "completed", NoBody))

\* setFilter
SetFilter(f) ==
    /\ f # filter
    /\ filter' = f
    /\ UNCHANGED <<serverVars, cache, inflight>>

\* apiClient.todos.$get() reaches the worker
ClientGet(s) ==
    /\ inflight[s].kind = "fetch"
    /\ Get(s, Me)
    /\ UNCHANGED <<arrived, clientVars>>

\* apiClient.todos.$post({ json: { title } }) reaches the worker
ClientPost(s) ==
    /\ inflight[s].kind = "create"
    /\ Post(s, Me, inflight[s].body)
    /\ UNCHANGED <<arrived, clientVars>>

\* apiClient.todos[":id"].$patch({ param, json }) reaches the worker
ClientPatch(s) ==
    /\ inflight[s].kind = "update"
    /\ Patch(s, Me, inflight[s].seg, inflight[s].body)
    /\ UNCHANGED <<arrived, clientVars>>

\* apiClient.todos[":id"].$delete and apiClient.todos.completed.$delete
\* reach the worker
ClientDelete(s) ==
    /\ inflight[s].kind \in {"delete", "clear"}
    /\ Delete(s, Me, inflight[s].seg)
    /\ UNCHANGED <<arrived, clientVars>>

\* res.ok, and res.json() parses the body
Resolves(resp) ==
    /\ resp.status >= 200 /\ resp.status <= 299
    /\ resp.kind # "none"

\* queryFn resolves: the query adopts the list
QuerySettle(s) ==
    /\ inflight[s].kind = "fetch"
    /\ reqs[s].pc = "done"
    /\ cache' = IF Resolves(reqs[s].resp)
                THEN [loaded |-> TRUE, rows |-> reqs[s].resp.rows]
                ELSE cache
    /\ reqs' = [reqs EXCEPT ![s] = IdleReq]
    /\ inflight' = [inflight EXCEPT ![s] = NoOp]
    /\ UNCHANGED <<store, clock, issued, arrived, filter>>

\* queryClient.invalidateQueries({ queryKey: ["todos"] }), called when the
\* mutation in slot s has succeeded: the query fetches again.  A fetch
\* under way is cancelled and started anew when the query has data; the
\* first fetch of a query without data is left to go on.
Invalidate(s) ==
    IF FetchSlots = {}
    THEN /\ inflight' = [inflight EXCEPT ![s] = FetchOp]
         /\ reqs' = [reqs EXCEPT ![s] = IdleReq]
    ELSE IF cache.loaded
    THEN /\ inflight' = [inflight EXCEPT ![s] = NoOp]
         /\ reqs' = [r \in Slots |->
                        IF r = s \/ r \in FetchSlots THEN IdleReq ELSE reqs[r]]
    ELSE /\ inflight' = [inflight EXCEPT ![s] = NoOp]
         /\ reqs' = [reqs EXCEPT ![s] = IdleReq]

\* mutationFn settles: onSuccess when it resolved, nothing when it threw
MutationSettle(s) ==
    /\ inflight[s].kind \in MutationKinds
    /\ reqs[s].pc = "done"
    /\ IF Resolves(reqs[s].resp)
       THEN Invalidate(s)
       ELSE /\ inflight' = [inflight EXCEPT ![s] = NoOp]
            /\ reqs' = [reqs EXCEPT ![s] = IdleReq]
    /\ UNCHANGED <<store, clock, issued, arrived, cache, filter>>

\* the table as the user's earlier sessions left it: empty, or holding a
\* completed task
EarlierTodos ==
    {{}, {MkTodo(Uuid(1), Me, Rep(1), TRUE, 0, 0)}}

InitTodoList ==
    /\ store \in EarlierTodos
    /\ clock = 0
    /\ issued = Cardinality(store)
    /\ reqs = [s \in Slots |-> IdleReq]
    /\ arrived = 0
    /\ cache = [loaded |-> FALSE, rows |-> <<>>]
    /\ inflight = [s \in Slots |-> IF s = 1 THEN FetchOp ELSE NoOp]
    /\ filter = "all"

\* the user acts
UiAddTodo ==
    \E s \in Slots, t \in FormTitles : HandleAddTodo(s, t) /\ Counted

UiToggle ==
    \E s \in Slots, i \in 1..Len(FilteredTodos(Todos, filter)) :
        HandleToggle(s, i) /\ Counted

UiDelete ==
    \E s \in Slots, i \in 1..Len(FilteredTodos(Todos, filter)) :
        HandleDelete(s, i) /\ Counted

UiClearCompleted == \E s \in Slots : ClearCompleted(s) /\ Counted

UiSetFilter == \E f \in Filters : SetFilter(f)

\* the client's requests reach the worker
NetGet == \E s \in Slots : ClientGet(s)
NetPost == \E s \in Slots : ClientPost(s)
NetPatch == \E s \in Slots : ClientPatch(s)
NetDelete == \E s \in Slots : ClientDelete(s)

\* the responses reach the client
NetQuerySettle == \E s \in Slots : QuerySettle(s)
NetMutationSettle == \E s \in Slots : MutationSettle(s)

\* the later statements of the handlers
Worker == UNCHANGED <<arrived, clientVars>>

WorkerCreateWrite == \E s \in Slots : CreateWrite(s) /\ Worker
WorkerCreateReread == \E s \in Slots : CreateReread(s) /\ Worker
WorkerUpdateBuild == \E s \in Slots : UpdateBuild(s) /\ Worker
WorkerUpdateWrite == \E s \in Slots : UpdateWrite(s) /\ Worker
WorkerUpdateReread == \E s \in Slots : UpdateReread(s) /\ Worker
WorkerDeleteWrite == \E s \in Slots : DeleteWrite(s) /\ Worker

NextTodoList ==
    \/ UiAddTodo
    \/ UiToggle
    \/ UiDelete
    \/ UiClearCompleted
    \/ UiSetFilter
    \/ NetGet
    \/ NetPost
    \/ NetPatch
    \/ NetDelete
    \/ NetQuerySettle
    \/ NetMutationSettle
    \/ WorkerCreateWrite
    \/ WorkerCreateReread
    \/ WorkerUpdateBuild
    \/ WorkerUpdateWrite
    \/ WorkerUpdateReread
    \/ WorkerDeleteWrite

SpecTodoList == InitTodoList /\ [][NextTodoList]_vars

-----------------------------------------------------------------------------
(* Claims about the API *)

Status(s) == reqs[s].resp.status

\* this step is the arrival of a request in slot s
Entered(s) == reqs[s].pc = "idle" /\ reqs'[s].pc # "idle"

\* ... of a request of caller u that handler h answers
EnteredFor(s, u, h) ==
    Entered(s) /\ reqs'[s].user = u /\ reqs'[s].handler = h
Owns(st, id, user) == \E t \in st : t.id = id /\ t.userId = user
IsValidTitle(body) ==
    "title" \in body.keys /\ Len(body.title) >= 1 /\ Len(body.title) <= 500

\* C1: DELETE /todos/completed by an authenticated caller u, in any store
\* state, answers 200 {success:true} and leaves the store without exactly
\* the completed tasks of u (also when there are none).
C1_DeleteCompleted ==
    [][\A s \in Slots, u \in Users :
          Entered(s) /\ Delete(s, u, "completed") =>
              /\ reqs'[s].resp.status = 200
              /\ reqs'[s].resp.kind = "success"
              /\ store' = {t \in store : ~(t.userId = u /\ t.completed)}]_vars

\* the user a step of slot s acts for
StepUser(s) == IF reqs[s].pc = "idle" THEN reqs'[s].user ELSE reqs[s].user

\* C2: owner isolation.  No step of a request leaves a task of another
\* user changed or removed, under any interleaving; a List response holds
\* only tasks of its caller, and so does an Update response.
C2_OwnerIsolation ==
    /\ [](\A s \in Slots :
            reqs[s].pc = "done" /\ reqs[s].handler \in {"list", "update"} =>
                \A i \in 1..Len(reqs[s].resp.rows) :
                    reqs[s].resp.rows[i].userId = reqs[s].user)
    /\ [][\A s \in Slots :
            reqs'[s] # reqs[s] =>
                \A t \in store : t.userId # StepUser(s) => t \in store']_vars

\* C2 witness: user B was answered 404 for an Update of a task that exists
\* and belongs to A, and that task is still in the store
C2_Witness ==
    \E s \in Slots :
        /\ reqs[s].pc = "done" /\ reqs[s].handler = "update"
        /\ reqs[s].user = "B" /\ Status(s) = 404
        /\ Owns(store, reqs[s].id, "A")

\* C3: the update statement of a PATCH changes, in the row with the id,
\* at most the fields its patch carries (and updatedAt): never id, userId
\* or createdAt, never the title when only completed is patched, never
\* completed when only the title is patched; and it changes no other row.
C3_PartialUpdate ==
    [][\A s \in Slots :
          UpdateWrite(s) =>
              /\ Cardinality(store') = Cardinality(store)
              /\ \A t \in store :
                    IF t.id # reqs[s].id THEN t \in store'
                    ELSE \E n \in store' :
                        /\ n.id = t.id
                        /\ n.userId = t.userId
                        /\ n.createdAt = t.createdAt
                        /\ "title" \notin reqs[s].body.keys
                              => n.title = t.title
                        /\ "completed" \notin reqs[s].body.keys
                              => n.completed = t.completed
                        /\ "title" \in reqs[s].body.keys
                              => n.title = reqs[s].body.title
                        /\ "completed" \in reqs[s].body.keys
                              => n.completed = reqs[s].body.completed]_vars

\* C3 witness: a PATCH carrying only completed was answered 200 with the
\* task, while the store holds a second task
C3_Witness ==
    \E s \in Slots :
        /\ reqs[s].pc = "done" /\ reqs[s].handler = "update"
        /\ Status(s) = 200 /\ reqs[s].resp.kind = "task"
        /\ reqs[s].body.keys = {"completed"}
        /\ reqs[s].resp.rows[1].completed
        /\ Len(reqs[s].resp.rows[1].title) = 500
        /\ Cardinality(store) = 2

\* C4: under any interleaving, an Update by an authenticated caller with a
\* valid patch ends 404, or 200 with a body that is the task with that
\* id, owned by the caller, carrying the patched values: never 200
\* without a task.
C4_UpdateOutcome ==
    \A s \in Slots :
        reqs[s].pc = "done" /\ reqs[s].handler = "update"
          /\ Status(s) \notin {400, 401} =>
            \/ Status(s) = 404
            \/ /\ Status(s) = 200
               /\ reqs[s].resp.kind = "task"
               /\ reqs[s].resp.rows[1].id = reqs[s].id
               /\ reqs[s].resp.rows[1].userId = reqs[s].user
               /\ "title" \in reqs[s].body.keys =>
                     reqs[s].resp.rows[1].title = reqs[s].body.title
               /\ "completed" \in reqs[s].body.keys =>
                     reqs[s].resp.rows[1].completed = reqs[s].body.completed

\* C5: DELETE /todos/:id for an id that names no task of the caller (none
\* at all, or a task of another user) answers 404 and leaves the store
\* as it was; the delete statement of a DeleteOne that found its task
\* removes the row with that id and no other row, and answers 200.
C5_DeleteOne ==
    [][/\ \A s \in Slots, u \in Users, seg \in Segs :
            EnteredFor(s, u, "deleteOne") /\ Delete(s, u, seg)
              /\ ~Owns(store, seg, u) =>
                reqs'[s].resp.status = 404 /\ store' = store
       /\ \A s \in Slots :
            DeleteWrite(s) =>
                /\ reqs'[s].resp.status = 200
                /\ reqs'[s].resp.kind = "success"
                /\ store' = {t \in store : t.id # reqs[s].id}]_vars

\* C5 witness: a DeleteOne was answered 200, its task is gone and another
\* task is still there
C5_Witness ==
    \E s \in Slots :
        /\ reqs[s].pc = "done" /\ reqs[s].handler = "deleteOne"
        /\ Status(s) = 200
        /\ \A t \in store : t.id # reqs[s].id
        /\ store # {}

\* C6: a Create by u with a title of length 1..500 is accepted and its
\* insert adds exactly one row: its id is the id of no existing task, it
\* has that title, userId u, completed false and createdAt = updatedAt;
\* the request answers 201 with a task, the one with that id, under any
\* interleaving; and a List by u answers with exactly the rows of u, each
\* once, so a List right after the Create is the previous list plus that
\* one task.
C6_CreateThenList ==
    [][/\ \A s \in Slots, u \in Users, b \in Bodies :
            EnteredFor(s, u, "create") /\ IsValidTitle(b) /\ Post(s, u, b) =>
                /\ reqs'[s].pc = "insert"
                /\ reqs'[s].user = u
                /\ reqs'[s].body.title = b.title
                /\ \A o \in store : o.id # reqs'[s].id
       /\ \A s \in Slots :
            CreateWrite(s) =>
                \E t \in store' :
                    /\ store' = store \cup {t}
                    /\ t \notin store
                    /\ \A o \in store : o.id # t.id
                    /\ t.id = reqs[s].id
                    /\ t.title = reqs[s].body.title
                    /\ t.userId = reqs[s].user
                    /\ t.completed = FALSE
                    /\ t.createdAt = t.updatedAt
       /\ \A s \in Slots :
            CreateReread(s) =>
                /\ reqs'[s].resp.status = 201
                /\ reqs'[s].resp.kind = "task"
                /\ Len(reqs'[s].resp.rows) = 1
                /\ reqs'[s].resp.rows[1].id = reqs[s].id
       /\ \A s \in Slots, u \in Users :
            EnteredFor(s, u, "list") /\ Get(s, u) =>
                LET rows == reqs'[s].resp.rows
                    mine == {t \in store : t.userId = u}
                IN  /\ reqs'[s].resp.status = 200
                    /\ reqs'[s].resp.kind = "list"
                    /\ {rows[i] : i \in 1..Len(rows)} = mine
                    /\ Len(rows) = Cardinality(mine)]_vars

\* C7: every stored title has 1..500 characters; a Create whose title is
\* missing, empty or longer than 500, and an Update whose patch carries an
\* empty or over-long title, answer 400 and leave the store as it was.
C7_TitleLength ==
    /\ [](\A t \in store : Len(t.title) >= 1 /\ Len(t.title) <= 500)
    /\ [][/\ \A s \in Slots, u \in Users, b \in Bodies :
               EnteredFor(s, u, "create") /\ ~IsValidTitle(b)
                 /\ Post(s, u, b) =>
                   reqs'[s].resp.status = 400 /\ store' = store
          /\ \A s \in Slots, u \in Users, seg \in Segs, b \in Bodies :
               EnteredFor(s, u, "update") /\ "title" \in b.keys
                 /\ ~IsValidTitle(b) /\ Patch(s, u, seg, b) =>
                   reqs'[s].resp.status = 400 /\ store' = store]_vars

\* C7 witness: a Create was refused with 400 while the store holds a task
\* with a title of 500 characters and one with a title of 1 character
C7_Witness ==
    /\ \E s \in Slots :
          reqs[s].pc = "done" /\ reqs[s].handler = "create" /\ Status(s) = 400
    /\ \E t \in store : Len(t.title) = 500
    /\ \E t \in store : Len(t.title) = 1

\* C8: a request without a resolved caller answers 401 on every route,
\* whatever its path parameter and body, and leaves the store as it was.
C8_Unauthenticated ==
    [][\A s \in Slots :
          Entered(s) /\ reqs'[s].user = NoUser =>
              \A seg \in Segs, b \in Bodies :
                  \/ Get(s, NoUser)
                  \/ Post(s, NoUser, b)
                  \/ Patch(s, NoUser, seg, b)
                  \/ Delete(s, NoUser, seg)
                  => reqs'[s].resp.status = 401 /\ store' = store]_vars

\* C8 witness: a PATCH without a caller was answered 401 while the store
\* holds a task
C8_Witness ==
    \E s \in Slots :
        /\ reqs[s].pc = "done" /\ reqs[s].handler = "update"
        /\ reqs[s].user = NoUser /\ Status(s) = 401
        /\ store # {}

-----------------------------------------------------------------------------
(* Claims about the client *)

\* no query and no mutation of the client is under way
Quiescent == \A s \in Slots : inflight[s].kind = "none"

\* the cached list is the List result of the client's user: its rows,
\* each once
InSync ==
    LET mine == {t \in store : t.userId = Me}
    IN  /\ {cache.rows[i] : i \in 1..Len(cache.rows)} = mine
        /\ Len(cache.rows) = Cardinality(mine)

\* this step takes the response of the mutation in slot s
Settles(s) ==
    /\ inflight[s].kind \in {"create", "update", "delete", "clear"}
    /\ reqs[s].pc = "done"
    /\ reqs'[s].pc = "idle"

\* ... and the mutation succeeded: a 2xx response with a JSON body
Succeeded(s) ==
    /\ reqs[s].resp.status \in {200, 201}
    /\ reqs[s].resp.kind # "none"

\* the cached list changes only by adopting the response of a List fetch
OnlyAdopts ==
    cache' # cache =>
        \E s \in Slots :
            /\ inflight[s].kind = "fetch"
            /\ reqs[s].pc = "done"
            /\ reqs[s].resp.kind = "list"
            /\ cache' = [loaded |-> TRUE, rows |-> reqs[s].resp.rows]

\* a mutation that failed leaves the cached list and the view as they were
FailureKeeps ==
    \A s \in Slots :
        Settles(s) /\ ~Succeeded(s) =>
            /\ cache' = cache
            /\ FilteredTodos(cache'.rows, filter') = FilteredTodos(cache.rows, filter)

\* C9: the client's list changes only by adopting the response of a List
\* fetch; a mutation that fails leaves the list and the view as they were;
\* a mutation that succeeds is followed by a fetch of the list; and
\* consequently, once no mutation or fetch is in flight, the cached list
\* equals the server's List result for the caller.
C9_ViewModel ==
    /\ [][/\ OnlyAdopts
          /\ FailureKeeps
          /\ \A s \in Slots :
               Settles(s) /\ Succeeded(s) =>
                   \E f \in Slots : inflight'[f].kind = "fetch"]_vars
    /\ [](Quiescent => InSync)

\* how often x occurs in the sequence sq
Occurs(sq, x) == Cardinality({j \in 1..Len(sq) : sq[j] = x})

\* C10: the filter law.  For the fetched list, the view under "all" is the
\* list; the views under "active" and "completed" hold only tasks with
\* completed false, resp. true, and between them every task of the list
\* exactly once; the two counts are the lengths of those views and add up
\* to the length of the list.
C10_FilterLaw ==
    LET all == FilteredTodos(Todos, "all")
        act == FilteredTodos(Todos, "active")
        com == FilteredTodos(Todos, "completed")
    IN  /\ all = Todos
        /\ \A i \in 1..Len(act) : ~act[i].completed
        /\ \A i \in 1..Len(com) : com[i].completed
        /\ \A i \in 1..Len(Todos) :
              Occurs(act, Todos[i]) + Occurs(com, Todos[i]) = 1
        /\ Len(act) + Len(com) = Len(Todos)
        /\ ActiveTodoCount(Todos) = Len(act)
        /\ CompletedTodoCount(Todos) = Len(com)
        /\ ActiveTodoCount(Todos) + CompletedTodoCount(Todos) = Len(Todos)

\* C10 witness: the client shows the completed tasks of a list that holds
\* a completed and an active task
C10_Witness ==
    /\ Len(Todos) = 2
    /\ filter = "completed"
    /\ Len(FilteredTodos(Todos, filter)) = 1
    /\ ActiveTodoCount(Todos) = 1

-----------------------------------------------------------------------------
(* Claims about the client's requests *)

\* the mutations of kind k that are in flight
InFlight(k) == {s \in Slots : inflight[s].kind = k}

\* the user could start another request now: a slot is free and the run
\* has arrivals left
CouldStart == arrived < MaxArrivals /\ \E s \in Slots : Free(s)

\* C11 as claimed: in a single client, of each mutation kind (create,
\* update, delete, clear-completed) at most one request is in flight at
\* any time.
C11_OnePerKind == \A k \in MutationKinds : Cardinality(InFlight(k)) <= 1

\* C11, amended: in a single client at most one create request and at
\* most one clear-completed request is in flight at any time, and no step
\* starts one while one of its kind is pending.
C11_OneCreateOneClear ==
    /\ [](\A k \in {"create", "clear"} : Cardinality(InFlight(k)) <= 1)
    /\ [][\A s \in Slots, k \in {"create", "clear"} :
            inflight[s].kind # k /\ inflight'[s].kind = k =>
                InFlight(k) = {}]_vars

\* C11 witness: a clear-completed request is pending while the list still
\* shows a completed task and the user could start another request
C11_Witness ==
    /\ InFlight("clear") # {}
    /\ CompletedTodoCount(Todos) > 0
    /\ CouldStart

====
